---- MODULE Spec2Model ----
(***************************************************************************)
(* A model of cpenv's process-wide state (src/cpenv/api.py) and of the     *)
(* command line handlers that drive it (src/cpenv/__main__.py).            *)
(*                                                                         *)
(* Strings that the code splits or joins on os.pathsep are sequences of    *)
(* tokens: an atom (a separator-free, non-empty piece of text) or the      *)
(* separator itself.  The empty string is <<>>.  A piece between two       *)
(* separators is an atom or "" (the empty piece).                          *)
(*                                                                         *)
(* Resolver, Activator, Repo and Module live in files of the package that  *)
(* are not part of the sources at hand; they are modelled from the         *)
(* design document (sections 4.1, 4.2 and 4.5).                            *)
(***************************************************************************)
EXTENDS Integers, Sequences, FiniteSets, TLC

VARIABLES
    registry_repos,   \* _registry['repos']: the OrderedDict, as a sequence of [key, repo]
    registry_extra,   \* the other keys of _registry: a set of [key, repo]
    active_modules,   \* _active_modules: a list of module objects
    environ,          \* os.environ: CPENV_HOME, CPENV_MODULES, CPENV_ACTIVE_MODULES
    cwd,              \* os.getcwd()
    user_path,        \* appdirs.user_data_dir('cpenv')
    inited,           \* TRUE once _init() ran (it runs when the package is imported)
    op,               \* the last operation: its name, arguments and outcome
    pc,               \* position of each concurrent caller of add_active_module
    targ,             \* argument of each concurrent caller
    tnames,           \* the joined names each concurrent caller computed
    conc0,            \* the registry when the first concurrent caller started
    disk              \* the file system: directories and files made, modules removed

vars == <<registry_repos, registry_extra, active_modules, environ, cwd,
          user_path, inited, op, pc, targ, tnames, conc0, disk>>

-----------------------------------------------------------------------------
(* Bounds *)

MaxActive == 3        \* longest list of active modules explored
MaxEnvEntries == 2    \* most entries of CPENV_ACTIVE_MODULES at process start
MaxChoice == 3        \* largest magnitude of an index typed at a prompt

-----------------------------------------------------------------------------
(* Text *)

PathSep == ":"
None == "None"
NoIdx == <<>>                          \* idx=None; an index n is <<n>>

ModuleNames == {"a", "b", "c"}

\* Python compares str by code point; the names are single letters.
NameRank == [n \in ModuleNames |-> CASE n = "a" -> 1 [] n = "b" -> 2 [] n = "c" -> 3]

StrOf(piece) == IF piece = "" THEN <<>> ELSE <<piece>>

RECURSIVE Join(_)
Join(pieces) ==
    IF pieces = <<>> THEN <<>>
    ELSE IF Len(pieces) = 1 THEN StrOf(pieces[1])
    ELSE StrOf(pieces[1]) \o <<PathSep>> \o Join(Tail(pieces))

\* str.split(sep): one more piece than there are separators; ''.split gives [''].
RECURSIVE Split(_)
Split(s) ==
    IF s = <<>> THEN <<"">>
    ELSE IF Head(s) = PathSep THEN <<"">> \o Split(Tail(s))
    ELSE IF Len(s) = 1 THEN <<Head(s)>>
    ELSE \* an atom is followed by a separator or by the end of the text
         <<Head(s)>> \o Split(Tail(Tail(s)))

SeqToSet(s) == {s[i] : i \in 1..Len(s)}

-----------------------------------------------------------------------------
(* Paths *)

HomePaths == {"/h1", "/h2"}
UserPaths == {"/u", "/h1"}
CwdPaths == {"/w", "/h1/modules", "/u/modules"}

\* utils.normpath(base, 'modules')
ModulesDir(base) ==
    CASE base = "/h1" -> "/h1/modules"
      [] base = "/h2" -> "/h2/modules"
      [] base = "/u" -> "/u/modules"

\* utils.normpath(p): the empty path is the working directory, "/x/." is "/x"
NormPath(p, wd) ==
    IF p = "" THEN wd
    ELSE IF p = "/x/." THEN "/x"
    ELSE p

-----------------------------------------------------------------------------
(* Repos and modules *)

LocalRepo(name, path) == [name |-> name, path |-> path]
NoRepo == [name |-> None, path |-> None]       \* None where a repo is expected

\* The modules each directory held when the process started.
Published(path) ==
    CASE path = "/h1/modules" -> {"a", "b"}
      [] path = "/u/modules" -> {"a"}
      [] path = "/x" -> {"c"}
      [] OTHER -> {}

\* The modules each directory holds now.
Catalog(path) == {name \in Published(path) : <<path, name>> \notin disk.removed}

RequiresOf(name) == IF name = "b" THEN <<"a">> ELSE <<>>

ModuleSpec(name, repo) == [real_name |-> name, repo |-> repo.path, kind |-> "ModuleSpec"]
Module(spec) == [real_name |-> spec.real_name, repo |-> spec.repo, kind |-> "Module"]

-----------------------------------------------------------------------------
(* Environment *)

Unset == <<"(unset)">>                 \* os.environ has no such key
SiteDataDir == "/h2"                   \* appdirs.site_data_dir('cpenv')

get_home_path(env) ==
    IF env.CPENV_HOME = None THEN SiteDataDir ELSE env.CPENV_HOME

get_home_modules_path(env) == ModulesDir(get_home_path(env))

get_user_modules_path(user) == ModulesDir(user)

RECURSIVE AppendNew(_, _, _)
\* the loop of get_module_paths: the test is on the piece as written, the
\* path appended is the normalised one
AppendNew(module_paths, pieces, wd) ==
    IF pieces = <<>> THEN module_paths
    ELSE LET module_path == Head(pieces) IN
         IF module_path \notin SeqToSet(module_paths)
         THEN AppendNew(Append(module_paths, NormPath(module_path, wd)), Tail(pieces), wd)
         ELSE AppendNew(module_paths, Tail(pieces), wd)

get_module_paths(env, wd, user) ==
    LET first == <<NormPath(wd, wd), get_user_modules_path(user)>>
        cpenv_home_modules == get_home_modules_path(env)
        withHome == IF cpenv_home_modules \notin SeqToSet(first)
                    THEN Append(first, cpenv_home_modules)
                    ELSE first
        cpenv_modules_path == env.CPENV_MODULES
    IN  IF cpenv_modules_path # Unset /\ cpenv_modules_path # <<>>
        THEN AppendNew(withHome, Split(cpenv_modules_path), wd)
        ELSE withHome

-----------------------------------------------------------------------------
(* The repo registry *)

Keys(items) == {items[i].key : i \in 1..Len(items)}

get_repos_of(items) == [i \in 1..Len(items) |-> items[i].repo]

get_repos == get_repos_of(registry_repos)

\* list.insert(idx, x): a negative idx counts from the end, and idx is clamped
ListInsert(items, idx, x) ==
    LET n == Len(items)
        j == IF idx < 0 THEN (IF idx + n < 0 THEN 0 ELSE idx + n)
             ELSE (IF idx > n THEN n ELSE idx)
    IN  SubSeq(items, 1, j) \o <<x>> \o SubSeq(items, j + 1, n)

\* d[key] = value on an OrderedDict: a present key keeps its place
DictSet(items, key, value) ==
    IF key \in Keys(items)
    THEN [i \in 1..Len(items) |->
            IF items[i].key = key THEN [key |-> key, repo |-> value] ELSE items[i]]
    ELSE Append(items, [key |-> key, repo |-> value])

\* d.pop(key, None)
DictPop(items, key) == SelectSeq(items, LAMBDA it : it.key # key)

\* add_repo without its test of the name
add_repo_unchecked(items, repo, idx) ==
    IF idx # NoIdx
    THEN ListInsert(items, idx[1], [key |-> repo.name, repo |-> repo])
    ELSE DictSet(items, repo.name, repo)

\* add_repo that appends whatever idx is
add_repo_append(items, repo, idx) ==
    IF repo.name \notin Keys(items)
    THEN DictSet(items, repo.name, repo)
    ELSE items

add_repo(items, repo, idx) ==
    IF repo.name \notin Keys(items)
    THEN IF idx # NoIdx
         THEN ListInsert(items, idx[1], [key |-> repo.name, repo |-> repo])
         ELSE DictSet(items, repo.name, repo)
    ELSE items

remove_repo(items, repo) == DictPop(items, repo.name)

\* _registry.update({repo.name: repo}): the key is set on _registry itself,
\* beside 'repos'
update_repo(extra, repo) ==
    {e \in extra : e.key # repo.name} \cup {[key |-> repo.name, repo |-> repo]}

\* get_repo(name): the first registered repo of that name, else None
get_repo(items, name) ==
    IF \E i \in 1..Len(items) : items[i].repo.name = name
    THEN items[CHOOSE i \in 1..Len(items) :
                 /\ items[i].repo.name = name
                 /\ \A j \in 1..(i - 1) : items[j].repo.name # name].repo
    ELSE NoRepo

-----------------------------------------------------------------------------
(* The resolver (design document 4.2) *)

FindRepo(name, repos) ==
    IF \E i \in 1..Len(repos) : name \in Catalog(repos[i].path)
    THEN CHOOSE i \in 1..Len(repos) :
            /\ name \in Catalog(repos[i].path)
            /\ \A j \in 1..(i - 1) : name \notin Catalog(repos[j].path)
    ELSE 0

RECURSIVE ResolveInto(_, _, _)
ResolveInto(requirements, repos, acc) ==
    IF ~acc.ok \/ requirements = <<>> THEN acc
    ELSE LET r == Head(requirements) IN
         IF \E k \in 1..Len(acc.specs) : acc.specs[k].real_name = r
         THEN ResolveInto(Tail(requirements), repos, acc)
         ELSE LET i == FindRepo(r, repos) IN
              IF i = 0 THEN [ok |-> FALSE, specs |-> <<>>]
              ELSE LET deps == ResolveInto(RequiresOf(r), repos, acc) IN
                   IF ~deps.ok THEN deps
                   ELSE ResolveInto(Tail(requirements), repos,
                            [ok |-> TRUE,
                             specs |-> Append(deps.specs, ModuleSpec(r, repos[i]))])

\* Resolver(repos).resolve(requirements): ok = FALSE stands for ResolveError
Resolve(requirements, repos) ==
    ResolveInto(requirements, repos, [ok |-> TRUE, specs |-> <<>>])

-----------------------------------------------------------------------------
(* The active-module registry *)

RealNames(modules) == [i \in 1..Len(modules) |-> modules[i].real_name]

\* list.sort(key=lambda m: m.real_name): a stable sort
InsertSorted(sorted, m) ==
    LET k == Cardinality({i \in 1..Len(sorted) :
                             NameRank[sorted[i].real_name] <= NameRank[m.real_name]})
    IN  SubSeq(sorted, 1, k) \o <<m>> \o SubSeq(sorted, k + 1, Len(sorted))

RECURSIVE SortInto(_, _)
SortInto(sorted, rest) ==
    IF rest = <<>> THEN sorted
    ELSE SortInto(InsertSorted(sorted, Head(rest)), Tail(rest))

SortByRealName(modules) == SortInto(<<>>, modules)

\* list.remove(x): the first equal element goes
ListRemove(modules, x) ==
    LET i == CHOOSE i \in 1..Len(modules) :
                /\ modules[i] = x
                /\ \A j \in 1..(i - 1) : modules[j] # x
    IN  SubSeq(modules, 1, i - 1) \o SubSeq(modules, i + 1, Len(modules))

\* the list add_active_module leaves in _active_modules
add_active_module(modules, module) ==
    SortByRealName(IF module \notin SeqToSet(modules)
                   THEN Append(modules, module)
                   ELSE modules)

\* the list remove_active_module leaves in _active_modules
remove_active_module(modules, module) ==
    IF module \in SeqToSet(modules) THEN ListRemove(modules, module) ELSE modules

\* os.pathsep.join([m.real_name for m in _active_modules])
module_names(modules) == Join(RealNames(modules))

-----------------------------------------------------------------------------
(* _init *)

RepoNameFor(path, env, wd, user) ==
    IF path = NormPath(wd, wd) THEN "cwd"
    ELSE IF path = get_home_modules_path(env) THEN "home"
    ELSE IF path = get_user_modules_path(user) THEN "user"
    ELSE path

RECURSIVE RegisterPaths(_, _, _, _, _)
RegisterPaths(items, paths, env, wd, user) ==
    IF paths = <<>> THEN items
    ELSE RegisterPaths(
            add_repo(items, LocalRepo(RepoNameFor(Head(paths), env, wd, user), Head(paths)), NoIdx),
            Tail(paths), env, wd, user)

\* the loop over CPENV_ACTIVE_MODULES: what is appended to _active_modules
RECURSIVE RestoreActive(_, _)
RestoreActive(pieces, repos) ==
    IF pieces = <<>> THEN <<>>
    ELSE LET module == Head(pieces)
             res == Resolve(<<module>>, repos)
         IN  IF module # "" /\ res.ok
             THEN <<res.specs[1]>> \o RestoreActive(Tail(pieces), repos)
             ELSE RestoreActive(Tail(pieces), repos)

\* the entries _init reports in its warning
Unresolved(pieces, repos) ==
    SelectSeq(pieces, LAMBDA module : module # "" /\ ~Resolve(<<module>>, repos).ok)

ActiveEntries(env) ==
    IF env.CPENV_ACTIVE_MODULES # Unset /\ env.CPENV_ACTIVE_MODULES # <<>>
    THEN Split(env.CPENV_ACTIVE_MODULES)
    ELSE <<>>

NoOp == [name |-> "import", arg |-> None, ret |-> None, exit |-> 0 - 1]

Done(name, arg, ret) == [name |-> name, arg |-> arg, ret |-> ret, exit |-> 0 - 1]

_init ==
    /\ ~inited
    /\ LET items == RegisterPaths(registry_repos, get_module_paths(environ, cwd, user_path),
                                  environ, cwd, user_path)
           pieces == ActiveEntries(environ)
       IN  /\ registry_repos' = items
           /\ active_modules' = active_modules \o RestoreActive(pieces, get_repos_of(items))
           /\ op' = Done("_init", pieces, Unresolved(pieces, get_repos_of(items)))
    /\ inited' = TRUE
    /\ UNCHANGED <<disk, registry_extra, environ, cwd, user_path, pc, targ, tnames, conc0>>

-----------------------------------------------------------------------------
(* Activation and deactivation of one module *)

ModuleObjs ==
    {Module(ModuleSpec("a", LocalRepo("home", "/h1/modules"))),
     Module(ModuleSpec("b", LocalRepo("home", "/h1/modules"))),
     Module(ModuleSpec("a", LocalRepo("user", "/u/modules"))),
     Module(ModuleSpec("c", LocalRepo("/x", "/x"))),
     ModuleSpec("a", LocalRepo("home", "/h1/modules"))}

AddActiveModule(module) ==
    /\ inited
    /\ Len(active_modules) < MaxActive
    /\ active_modules' = add_active_module(active_modules, module)
    /\ environ' = [environ EXCEPT !.CPENV_ACTIVE_MODULES = module_names(active_modules')]
    /\ op' = Done("add_active_module", module, None)
    /\ UNCHANGED <<disk, registry_repos, registry_extra, cwd, user_path, inited,
                   pc, targ, tnames, conc0>>

RemoveActiveModule(module) ==
    /\ inited
    /\ active_modules' = remove_active_module(active_modules, module)
    /\ environ' = [environ EXCEPT !.CPENV_ACTIVE_MODULES = module_names(active_modules')]
    /\ op' = Done("remove_active_module", module, None)
    /\ UNCHANGED <<disk, registry_repos, registry_extra, cwd, user_path, inited,
                   pc, targ, tnames, conc0>>

-----------------------------------------------------------------------------
(* The state when the package is imported *)

Threads == {1, 2}

\* the texts CPENV_ACTIVE_MODULES may hold at process start: lists of names
\* without a repeated name, in any order, with or without empty pieces
PiecesUpTo(n) ==
    {p \in UNION {[1..k -> ModuleNames \cup {""}] : k \in 1..n} :
        \A i, j \in 1..Len(p) : (i # j /\ p[i] # "") => p[i] # p[j]}

ActiveTexts == {Unset} \cup {Join(p) : p \in PiecesUpTo(MaxEnvEntries)}

ModulesTexts == {Unset, <<"/x">>, <<"/x", PathSep, "/x/.">>, <<"/x", PathSep>>}

InitWith(homes, modulesTexts, activeTexts, cwds, users) ==
    /\ registry_repos = <<>>
    /\ registry_extra = {}
    /\ active_modules = <<>>
    /\ environ \in [CPENV_HOME : homes, CPENV_MODULES : modulesTexts,
                    CPENV_ACTIVE_MODULES : activeTexts]
    /\ cwd \in cwds
    /\ user_path \in users
    /\ inited = FALSE
    /\ op = NoOp
    /\ pc = [t \in Threads |-> "idle"]
    /\ targ = [t \in Threads |-> None]
    /\ tnames = [t \in Threads |-> <<>>]
    /\ conc0 = <<>>
    /\ disk = [dirs |-> {}, files |-> {}, removed |-> {}]

Init == InitWith({None, "/h1"}, ModulesTexts, ActiveTexts, CwdPaths, UserPaths)

\* activation and deactivation after import
InitActive ==
    InitWith({None, "/h1"}, {Unset, <<"/x">>},
             {Unset, <<>>, <<"a">>, <<"c", PathSep, "a">>}, {"/w"}, {"/u"})

NextActive ==
    \/ _init
    \/ \E module \in ModuleObjs : AddActiveModule(module)
    \/ \E module \in ModuleObjs : RemoveActiveModule(module)

SpecActive == InitActive /\ [][NextActive]_vars

-----------------------------------------------------------------------------
(* Operations on the repo registry *)

RepoObjs ==
    {LocalRepo("home", "/h1/modules"), LocalRepo("home", "/h2/modules"),
     LocalRepo("/x", "/w")}

UpdateArgs == {LocalRepo("user", "/u/modules")}

IdxArgs == {NoIdx, <<0>>, <<1>>, <<0 - 1>>, <<0 - 2>>, <<2>>}

AddRepo(repo, idx) ==
    /\ inited
    /\ registry_repos' = add_repo(registry_repos, repo, idx)
    /\ op' = Done("add_repo", [repo |-> repo, idx |-> idx],
                  IF repo.name \in Keys(registry_repos) THEN "present" ELSE "added")
    /\ UNCHANGED <<disk, registry_extra, active_modules, environ, cwd, user_path, inited,
                   pc, targ, tnames, conc0>>

RemoveRepo(repo) ==
    /\ inited
    /\ registry_repos' = remove_repo(registry_repos, repo)
    /\ op' = Done("remove_repo", repo, None)
    /\ UNCHANGED <<disk, registry_extra, active_modules, environ, cwd, user_path, inited,
                   pc, targ, tnames, conc0>>

\* repo.name is not the literal 'repos' here
UpdateRepo(repo) ==
    /\ inited
    /\ registry_extra' = update_repo(registry_extra, repo)
    /\ op' = Done("update_repo", None, None)
    /\ UNCHANGED <<disk, registry_repos, active_modules, environ, cwd, user_path, inited,
                   pc, targ, tnames, conc0>>

\* set_home_path(path): CPENV_HOME is set, then update_repo gets the new LocalRepo
SetHomePath(path) ==
    /\ inited
    /\ LET home == NormPath(path, cwd)
           env == [environ EXCEPT !.CPENV_HOME = home]
       IN  /\ environ' = env
           /\ registry_extra' =
                 update_repo(registry_extra, LocalRepo("home", get_home_modules_path(env)))
           /\ op' = Done("set_home_path", path, home)
    /\ UNCHANGED <<disk, registry_repos, active_modules, cwd, user_path, inited,
                   pc, targ, tnames, conc0>>

\* the non-empty pieces of CPENV_MODULES ('' when the variable is unset)
ModulePathsOf(env) ==
    SelectSeq(Split(IF env.CPENV_MODULES = Unset THEN <<>> ELSE env.CPENV_MODULES),
              LAMBDA module_path : module_path # "")

AddModulePath(p) ==
    /\ inited
    /\ LET path == NormPath(p, cwd)
           old == ModulePathsOf(environ)
           fresh == path \notin SeqToSet(old)
           module_paths == IF fresh THEN Append(old, path) ELSE old
       IN  /\ registry_repos' = IF fresh
                                THEN add_repo(registry_repos, LocalRepo(path, path), NoIdx)
                                ELSE registry_repos
           /\ environ' = [environ EXCEPT !.CPENV_MODULES = Join(module_paths)]
           /\ op' = Done("add_module_path", p, module_paths)
    /\ UNCHANGED <<disk, registry_extra, active_modules, cwd, user_path, inited,
                   pc, targ, tnames, conc0>>

\* the repo registry after import
InitRepos == InitWith({None, "/h1"}, {Unset, <<"/x">>}, {Unset}, {"/w"}, {"/u"})

NextRepos ==
    \/ _init
    \/ \E repo \in RepoObjs, idx \in IdxArgs : AddRepo(repo, idx)
    \/ \E repo \in RepoObjs : RemoveRepo(repo)
    \/ \E repo \in UpdateArgs : UpdateRepo(repo)
    \/ \E path \in HomePaths : SetHomePath(path)
    \/ \E path \in {"/x/.", "/w"} : AddModulePath(path)

SpecRepos == InitRepos /\ [][NextRepos]_vars

\* import alone, from every environment
NextImport == _init

SpecImport == Init /\ [][NextImport]_vars

-----------------------------------------------------------------------------
(* Two callers of add_active_module in one process, statement by statement. *)
(* list.sort is taken as one step.                                          *)

TStart(t, module) ==
    /\ inited
    /\ pc[t] = "idle"
    /\ pc' = [pc EXCEPT ![t] = "test"]
    /\ targ' = [targ EXCEPT ![t] = module]
    /\ conc0' = IF \A u \in Threads : pc[u] = "idle" THEN <<active_modules>> ELSE conc0
    /\ op' = Done("add_active_module", None, None)
    /\ UNCHANGED <<disk, registry_repos, registry_extra, active_modules, environ, cwd,
                   user_path, inited, tnames>>

\* if module not in _active_modules:
TTest(t) ==
    /\ pc[t] = "test"
    /\ pc' = [pc EXCEPT ![t] = IF targ[t] \notin SeqToSet(active_modules)
                                THEN "append" ELSE "sort"]
    /\ UNCHANGED <<disk, registry_repos, registry_extra, active_modules, environ, cwd,
                   user_path, inited, op, targ, tnames, conc0>>

\* _active_modules.append(module)
TAppend(t) ==
    /\ pc[t] = "append"
    /\ active_modules' = Append(active_modules, targ[t])
    /\ pc' = [pc EXCEPT ![t] = "sort"]
    /\ UNCHANGED <<disk, registry_repos, registry_extra, environ, cwd, user_path, inited,
                   op, targ, tnames, conc0>>

\* _active_modules.sort(key=lambda m: m.real_name)
TSort(t) ==
    /\ pc[t] = "sort"
    /\ active_modules' = SortByRealName(active_modules)
    /\ pc' = [pc EXCEPT ![t] = "join"]
    /\ UNCHANGED <<disk, registry_repos, registry_extra, environ, cwd, user_path, inited,
                   op, targ, tnames, conc0>>

\* module_names = os.pathsep.join(...)
TJoin(t) ==
    /\ pc[t] = "join"
    /\ tnames' = [tnames EXCEPT ![t] = module_names(active_modules)]
    /\ pc' = [pc EXCEPT ![t] = "write"]
    /\ UNCHANGED <<disk, registry_repos, registry_extra, active_modules, environ, cwd,
                   user_path, inited, op, targ, conc0>>

\* os.environ['CPENV_ACTIVE_MODULES'] = str(module_names)
TWrite(t) ==
    /\ pc[t] = "write"
    /\ environ' = [environ EXCEPT !.CPENV_ACTIVE_MODULES = tnames[t]]
    /\ pc' = [pc EXCEPT ![t] = "done"]
    /\ UNCHANGED <<disk, registry_repos, registry_extra, active_modules, cwd, user_path,
                   inited, op, targ, tnames, conc0>>

InitConc ==
    InitWith({None, "/h1"}, {Unset, <<"/x">>}, {Unset, <<"a">>}, {"/w"}, {"/u"})

NextConc ==
    \/ _init
    \/ \E t \in Threads, module \in ModuleObjs : TStart(t, module)
    \/ \E t \in Threads : TTest(t)
    \/ \E t \in Threads : TAppend(t)
    \/ \E t \in Threads : TSort(t)
    \/ \E t \in Threads : TJoin(t)
    \/ \E t \in Threads : TWrite(t)

SpecConc == InitConc /\ [][NextConc]_vars

\* the registry and the variable after the two calls, one after the other
Serial(modules, first, second) ==
    LET after == add_active_module(add_active_module(modules, first), second)
    IN  <<after, module_names(after)>>

\* C3: when both concurrent calls have returned, the registry and
\* CPENV_ACTIVE_MODULES are as after the two calls in some serial order: no
\* object is registered twice and the variable names every registered module.
C3_ConcurrentAddsSerialize ==
    (\A t \in Threads : pc[t] = "done") =>
        /\ <<active_modules, environ.CPENV_ACTIVE_MODULES>> \in
               {Serial(conc0[1], targ[1], targ[2]), Serial(conc0[1], targ[2], targ[1])}
        /\ \A i, j \in 1..Len(active_modules) :
               i # j => active_modules[i] # active_modules[j]
        /\ SeqToSet(RealNames(active_modules))
               \subseteq SeqToSet(Split(environ.CPENV_ACTIVE_MODULES))

-----------------------------------------------------------------------------
(* api.activate and the activate command *)

\* Activator.activate (design document 4.5): module by module, a failing
\* pre_activate hook stops the batch and what was registered before stays.
\* failing is the position of the module whose hook fails, 0 for none.
\* added tells whether add_active_module was called at all.
RECURSIVE ActivatorActivate(_, _, _, _)
ActivatorActivate(modules, module_specs, k, failing) ==
    IF k > Len(module_specs)
    THEN [ok |-> TRUE, error |-> None, active |-> modules, added |-> k > 1]
    ELSE IF k = failing
    THEN [ok |-> FALSE, error |-> "HookError", active |-> modules, added |-> k > 1]
    ELSE ActivatorActivate(add_active_module(modules, Module(module_specs[k])),
                           module_specs, k + 1, failing)

Unresolvable(modules) ==
    [ok |-> FALSE, error |-> "ResolveError", active |-> modules, added |-> FALSE]

\* api.activate taken one requirement at a time
activate_each(modules, requirements, repos, failing) ==
    IF requirements = <<>> THEN ActivatorActivate(modules, <<>>, 1, failing)
    ELSE LET first == Resolve(<<Head(requirements)>>, repos)
             rest == Resolve(requirements, repos)
         IN  IF ~first.ok THEN Unresolvable(modules)
             ELSE IF ~rest.ok
                  THEN [ok |-> FALSE, error |-> "ResolveError",
                        active |-> ActivatorActivate(modules, first.specs, 1, 0).active,
                        added |-> TRUE]
                  ELSE ActivatorActivate(modules, rest.specs, 1, failing)

\* api.activate(*requirements): the registry it leaves, or the error it raises
activate(modules, requirements, repos, failing) ==
    LET module_specs == Resolve(requirements, repos)
    IN  IF ~module_specs.ok
        THEN Unresolvable(modules)
        ELSE ActivatorActivate(modules, module_specs.specs, 1, failing)

RequirementLists == {<<>>} \cup UNION {[1..k -> ModuleNames] : k \in 1..2}

\* Activate.run: ResolveError is caught and ends in sys.exit(1); any other
\* error is not caught and ends the process; otherwise the subshell starts.
Activate_run(modules, failing) ==
    /\ inited
    /\ LET res == activate(active_modules, modules, get_repos, failing) IN
       /\ Len(res.active) <= MaxActive
       /\ active_modules' = res.active
       /\ environ' = IF res.added
                     THEN [environ EXCEPT !.CPENV_ACTIVE_MODULES = module_names(res.active)]
                     ELSE environ
       /\ op' = [name |-> "Activate.run", arg |-> modules,
                 ret |-> IF res.ok THEN "launched" ELSE res.error,
                 exit |-> IF res.ok THEN 0 - 1 ELSE 1]
    /\ UNCHANGED <<disk, registry_repos, registry_extra, cwd, user_path, inited,
                   pc, targ, tnames, conc0>>

-----------------------------------------------------------------------------
(* api.clone and the clone command *)

\* Repo.find(module)[0] (design document 4.1): IndexError when nothing is found
FindIn(repo, module) ==
    IF module \in Catalog(repo.path)
    THEN [ok |-> TRUE, error |-> None, spec |-> ModuleSpec(module, repo)]
    ELSE [ok |-> FALSE, error |-> "IndexError", spec |-> ModuleSpec(module, repo)]

\* the call of module_spec.repo.download
Download(spec, where, overwrite) ==
    [outcome |-> "downloaded", spec |-> spec,
     where |-> <<IF where = None THEN "." ELSE where, spec.real_name>>,
     overwrite |-> overwrite]

Raised(error) ==
    [outcome |-> error, spec |-> NoRepo, where |-> <<>>, overwrite |-> FALSE]

\* api.clone(module, from_repo, where, overwrite) for a module given by name
clone(module, from_repo, where, overwrite, items) ==
    IF from_repo = None
    THEN LET res == Resolve(<<module>>, get_repos_of(items)) IN
         IF res.ok THEN Download(res.specs[1], where, overwrite)
         ELSE Raised("ResolveError")
    ELSE LET repo == get_repo(items, from_repo) IN
         IF repo = NoRepo THEN Raised("AttributeError")
         ELSE LET found == FindIn(repo, module) IN
              IF found.ok THEN Download(found.spec, where, overwrite)
              ELSE Raised(found.error)

WhereArgs == {None, "/dst", "home"}
FromRepoArgs == {None, "home", "user"}

\* Clone.run: api.clone(args.module, args.where, args.from_repo, args.overwrite)
Clone_run(module, where, from_repo, overwrite) ==
    /\ inited
    /\ LET res == clone(module, where, from_repo, overwrite, registry_repos) IN
       op' = [name |-> "Clone.run",
              arg |-> [module |-> module, where |-> where, from_repo |-> from_repo,
                       overwrite |-> overwrite],
              ret |-> res,
              exit |-> IF res.outcome = "downloaded" THEN 0 - 1 ELSE 1]
    /\ UNCHANGED <<disk, registry_repos, registry_extra, active_modules, environ, cwd,
                   user_path, inited, pc, targ, tnames, conc0>>

-----------------------------------------------------------------------------
(* prompt_for_repo *)

Digits == <<"0", "1", "2", "3", "4", "5", "6", "7", "8", "9">>

IsDigit(c) == \E d \in 1..10 : Digits[d] = c

DigitValue(c) == (CHOOSE d \in 1..10 : Digits[d] = c) - 1

RECURSIVE DigitsValue(_, _)
DigitsValue(text, acc) ==
    IF text = <<>> THEN acc ELSE DigitsValue(Tail(text), 10 * acc + DigitValue(Head(text)))

RECURSIVE Strip(_)
\* str.strip() as int() applies it
Strip(text) ==
    IF text # <<>> /\ Head(text) = " " THEN Strip(Tail(text))
    ELSE IF text # <<>> /\ text[Len(text)] = " " THEN Strip(SubSeq(text, 1, Len(text) - 1))
    ELSE text

\* int(text): an optional sign and digits, blanks around them; else ValueError
ParseInt(text) ==
    LET t == Strip(text)
        signed == t # <<>> /\ Head(t) \in {"-", "+"}
        body == IF signed THEN Tail(t) ELSE t
    IN  IF body # <<>> /\ \A i \in 1..Len(body) : IsDigit(body[i])
        THEN [ok |-> TRUE,
              n |-> IF signed /\ Head(t) = "-" THEN 0 - DigitsValue(body, 0)
                    ELSE DigitsValue(body, 0)]
        ELSE [ok |-> FALSE, n |-> 0]

\* what the user may type at the prompt
ChoiceTexts ==
    {<<>>, <<"x">>}
    \cup {<<Digits[n + 1]>> : n \in 0..MaxChoice}
    \cup {<<"-", Digits[n + 1]>> : n \in 0..MaxChoice}
    \cup {<<"+", "1">>, <<" ", "1">>}

Returned(repo) == [outcome |-> "return", repo |-> repo]
Ended(how) == [outcome |-> how, repo |-> NoRepo]

\* prompt_for_repo(repos, message, default_repo_name) when the user types
\* text; an error that nothing catches ends the process
prompt_for_repo(repos, default_repo_name, text) ==
    LET hasDefault == \E i \in 1..Len(repos) : repos[i].name = default_repo_name
        default == CHOOSE i \in 1..Len(repos) :
                      /\ repos[i].name = default_repo_name
                      /\ \A j \in (i + 1)..Len(repos) : repos[j].name # default_repo_name
        choice == ParseInt(text)
        n == Len(repos)
    IN  IF ~hasDefault THEN Ended("UnboundLocalError")
        ELSE IF text = <<>> THEN Returned(repos[default])
        ELSE IF ~choice.ok THEN Ended("ValueError")
        ELSE IF choice.n > n - 1 THEN Ended("sys.exit(1)")
        ELSE IF choice.n >= 0 THEN Returned(repos[choice.n + 1])
        ELSE IF choice.n + n >= 0 THEN Returned(repos[choice.n + n + 1])
        ELSE Ended("IndexError")

PromptForRepo(text) ==
    /\ inited
    /\ LET res == prompt_for_repo(get_repos, "home", text) IN
       op' = [name |-> "prompt_for_repo", arg |-> text, ret |-> res,
              exit |-> IF res.outcome = "return" THEN 0 - 1 ELSE 1]
    /\ UNCHANGED <<disk, registry_repos, registry_extra, active_modules, environ, cwd,
                   user_path, inited, pc, targ, tnames, conc0>>

-----------------------------------------------------------------------------
(* api.remove and the remove command *)

\* str.lower() on the answers a user may give
Lower(text) ==
    CASE text = "Y" -> "y"
      [] text = "YES" -> "yes"
      [] text = "Yup" -> "yup"
      [] text = "N" -> "n"
      [] OTHER -> text

Answers == {"y", "YES", "Yup", "n", "N", ""}

\* any answer counts as a yes
ConfirmedAlways(choice) == choice = choice

\* choice.lower() in ['y', 'yes', 'yup']
Confirmed(choice) == Lower(choice) \in {"y", "yes", "yup"}

NoModule == [real_name |-> None, repo |-> None, kind |-> None]

\* Repo.find_module(name): the module of that name in the repo, or None
find_module(repo, name) ==
    IF name \in Catalog(repo.path) THEN Module(ModuleSpec(name, repo)) ELSE NoModule

\* api.remove(module, from_repo) for a Module or ModuleSpec: its storage goes
remove(d, module, from_repo) ==
    [d EXCEPT !.removed = @ \cup {<<module.repo, module.real_name>>}]

FromRepoOptions == {None, "home", "user", "nowhere"}

RemoveStopped(how, repo) == [outcome |-> how, repo |-> repo, module |-> NoModule]

\* Remove.run: what it does to the disk and how it ends.  text is the
\* answer to the repo prompt, answer the answer to 'Delete this module?'.
\* click is not imported, so the branch for a module that is not found
\* raises NameError at its first statement.
RemoveOutcome(d, module, from_repo_arg, text, answer, items) ==
    LET prompted == prompt_for_repo(get_repos_of(items), "home", text)
        from_repo == IF from_repo_arg # None THEN get_repo(items, from_repo_arg)
                     ELSE prompted.repo
        found == find_module(from_repo, module)
    IN  IF from_repo_arg = None /\ prompted.outcome # "return"
        THEN [disk |-> d, ret |-> RemoveStopped(prompted.outcome, NoRepo)]
        ELSE IF from_repo = NoRepo
        THEN [disk |-> d, ret |-> RemoveStopped("AttributeError", NoRepo)]
        ELSE IF found = NoModule
        THEN [disk |-> d, ret |-> RemoveStopped("NameError", from_repo)]
        ELSE IF ~Confirmed(answer)
        THEN [disk |-> d, ret |-> RemoveStopped("sys.exit(1)", from_repo)]
        ELSE [disk |-> remove(d, found, from_repo),
              ret |-> [outcome |-> "removed", repo |-> from_repo, module |-> found]]

Remove_run(module, from_repo, text, answer) ==
    /\ inited
    /\ LET res == RemoveOutcome(disk, module, from_repo, text, answer, registry_repos) IN
       /\ disk' = res.disk
       /\ op' = [name |-> "Remove.run",
                 arg |-> [module |-> module, from_repo |-> from_repo, text |-> text,
                          answer |-> answer],
                 ret |-> res.ret,
                 exit |-> IF res.ret.outcome = "removed" THEN 0 - 1 ELSE 1]
    /\ UNCHANGED <<registry_repos, registry_extra, active_modules, environ, cwd,
                   user_path, inited, pc, targ, tnames, conc0>>

InitRemove ==
    InitWith({None, "/h1"}, {<<"/x">>}, {Unset}, {"/w", "/h1/modules"}, {"/u"})

NextRemove ==
    \/ _init
    \/ \E module \in ModuleNames, from_repo \in FromRepoOptions,
          text \in {<<>>, <<"1">>, <<"9">>}, answer \in Answers :
          Remove_run(module, from_repo, text, answer)

SpecRemove == InitRemove /\ [][NextRemove]_vars

-----------------------------------------------------------------------------
(* api.clone, api.publish and api.copy called with the name of a module *)

\* the call of to_repo.upload, or of Copier(to_repo).copy
Sent(how, spec, to_repo) == [outcome |-> how, spec |-> spec, to |-> to_repo]

NotSent(error) == [outcome |-> error, spec |-> NoModule, to |-> NoRepo]

\* api.publish(module, to_repo) for a module given by name; every repo of
\* the registry is a LocalRepo
publish(module, to_repo_arg, items) ==
    LET to_repo == get_repo(items, to_repo_arg)
        res == Resolve(<<module>>, get_repos_of(items))
    IN  IF ~res.ok THEN NotSent("ResolveError")
        ELSE IF to_repo = NoRepo THEN NotSent("AttributeError")
        ELSE Sent("uploaded", Module(res.specs[1]), to_repo)

\* api.copy(module, from_repo, to_repo)
copy(module, from_repo_arg, to_repo_arg, items) ==
    LET from_repo == get_repo(items, from_repo_arg)
        to_repo == get_repo(items, to_repo_arg)
    IN  IF from_repo = NoRepo THEN NotSent("AttributeError")
        ELSE LET res == Resolve(<<module>>, <<from_repo>>) IN
             IF ~res.ok THEN NotSent("ResolveError")
             ELSE IF to_repo = NoRepo THEN NotSent("AttributeError")
             ELSE Sent("copied", res.specs[1], to_repo)

RepoNameArgs == {"home", "user", "cwd"}

ApiClone(module, from_repo, where) ==
    /\ inited
    /\ op' = Done("clone", [module |-> module, from_repo |-> from_repo],
                  clone(module, from_repo, where, FALSE, registry_repos))
    /\ UNCHANGED <<registry_repos, registry_extra, active_modules, environ, cwd,
                   user_path, inited, pc, targ, tnames, conc0, disk>>

ApiPublish(module, to_repo) ==
    /\ inited
    /\ op' = Done("publish", [module |-> module, to_repo |-> to_repo],
                  publish(module, to_repo, registry_repos))
    /\ UNCHANGED <<registry_repos, registry_extra, active_modules, environ, cwd,
                   user_path, inited, pc, targ, tnames, conc0, disk>>

ApiCopy(module, from_repo, to_repo) ==
    /\ inited
    /\ op' = Done("copy", [module |-> module, from_repo |-> from_repo, to_repo |-> to_repo],
                  copy(module, from_repo, to_repo, registry_repos))
    /\ UNCHANGED <<registry_repos, registry_extra, active_modules, environ, cwd,
                   user_path, inited, pc, targ, tnames, conc0, disk>>

InitTransfer ==
    InitWith({None, "/h1"}, {Unset, <<"/x">>}, {Unset}, {"/w", "/h1/modules"}, UserPaths)

NextTransfer ==
    \/ _init
    \/ \E module \in ModuleNames, from_repo \in {None} \cup RepoNameArgs,
          where \in {None, "/dst"} : ApiClone(module, from_repo, where)
    \/ \E module \in ModuleNames, to_repo \in RepoNameArgs : ApiPublish(module, to_repo)
    \/ \E module \in ModuleNames, from_repo \in RepoNameArgs, to_repo \in RepoNameArgs :
          ApiCopy(module, from_repo, to_repo)

SpecTransfer == InitTransfer /\ [][NextTransfer]_vars

-----------------------------------------------------------------------------
(* api.create *)

\* the statements of create after its test of 'where', in source order
CreateSteps ==
    <<"pre_create", "ensure_path_exists", "ensure_hooks_path_exists", "write", "post_create">>

\* the statements with the folders made before the pre_create hook runs
CreateStepsFoldersFirst ==
    <<"ensure_path_exists", "ensure_hooks_path_exists", "pre_create", "write", "post_create">>

HooksPath(where) == where \o "/hooks"

MetadataPath(where) == where \o "/module.yml"

\* One statement of create. The log keeps, for each statement that ran, the
\* folders and files that were there when it started. open(..., 'w') raises
\* when the folder of the file is missing.
CreateStep(st, step, where) ==
    LET seen == [step |-> step, dirs |-> st.disk.dirs, files |-> st.disk.files]
        logged == [st EXCEPT !.log = Append(@, seen)]
    IN  CASE step = "ensure_path_exists" ->
                 [logged EXCEPT !.disk.dirs = @ \cup {where}]
          [] step = "ensure_hooks_path_exists" ->
                 [logged EXCEPT !.disk.dirs = @ \cup {where, HooksPath(where)}]
          [] step = "write" ->
                 IF where \in st.disk.dirs
                 THEN [logged EXCEPT !.disk.files = @ \cup {MetadataPath(where)}]
                 ELSE [logged EXCEPT !.error = "IOError"]
          [] OTHER -> logged

\* the statements from the k-th on; the one numbered 'failing' raises when it
\* starts, and an error ends the call
RECURSIVE RunCreate(_, _, _, _, _)
RunCreate(steps, k, st, where, failing) ==
    IF k > Len(steps) \/ st.error # None THEN st
    ELSE IF k = failing
         THEN [st EXCEPT !.error = "raised",
                         !.log = Append(@, [step |-> steps[k], dirs |-> st.disk.dirs,
                                            files |-> st.disk.files])]
         ELSE RunCreate(steps, k + 1, CreateStep(st, steps[k], where), where, failing)

create_folders_first(d, where, wd, failing) ==
    LET path == NormPath(where, wd)
        start == [disk |-> d, log |-> <<>>, error |-> None]
    IN  IF path \in d.dirs
        THEN [start EXCEPT !.error = "OSError"]
        ELSE RunCreate(CreateStepsFoldersFirst, 1, start, path, failing)

create(d, where, wd, failing) ==
    LET path == NormPath(where, wd)
        start == [disk |-> d, log |-> <<>>, error |-> None]
    IN  IF path \in d.dirs
        THEN [start EXCEPT !.error = "OSError"]
        ELSE RunCreate(CreateSteps, 1, start, path, failing)

CreateWhereArgs == {"/w/m1", "/w/m2", "/x/."}

Create(where, failing) ==
    /\ inited
    /\ LET res == create(disk, where, cwd, failing) IN
       /\ disk' = res.disk
       /\ op' = Done("create", [where |-> where, failing |-> failing],
                     [outcome |-> IF res.error = None THEN "created" ELSE res.error,
                      log |-> res.log])
    /\ UNCHANGED <<registry_repos, registry_extra, active_modules, environ, cwd, user_path,
                   inited, pc, targ, tnames, conc0>>

InitCreate == InitWith({None}, {Unset}, {Unset}, {"/w"}, {"/u"})

NextCreate ==
    \/ _init
    \/ \E where \in CreateWhereArgs, failing \in 0..Len(CreateSteps) : Create(where, failing)

SpecCreate == InitCreate /\ [][NextCreate]_vars

-----------------------------------------------------------------------------
(* The commands after import *)

InitCli ==
    InitWith({None, "/h1"}, {Unset, <<"/x">>}, {<<"a">>}, {"/w", "/h1/modules"}, {"/u"})

NextCli ==
    \/ _init
    \/ \E modules \in RequirementLists, failing \in 0..2 : Activate_run(modules, failing)
    \/ \E module \in ModuleNames, where \in WhereArgs, from_repo \in FromRepoArgs,
          overwrite \in BOOLEAN : Clone_run(module, where, from_repo, overwrite)
    \/ \E text \in ChoiceTexts : PromptForRepo(text)

SpecCli == InitCli /\ [][NextCli]_vars

-----------------------------------------------------------------------------
(* Every operation, one call at a time *)

Next == NextActive \/ NextRepos \/ NextCli

Spec == Init /\ [][Next]_vars

-----------------------------------------------------------------------------
(* Properties of the active-module registry *)

NoTwoWithSameRealName(modules) ==
    \A i, j \in 1..Len(modules) :
        i # j => modules[i].real_name # modules[j].real_name

\* the names of a list of modules, each once, in ascending order
RECURSIVE AscendingNames(_)
AscendingNames(names) ==
    IF names = {} THEN <<>>
    ELSE LET least == CHOOSE n \in names : \A o \in names : NameRank[n] <= NameRank[o]
         IN  <<least>> \o AscendingNames(names \ {least})

\* C1: in every state reached by _init, add_active_module and
\* remove_active_module, the active-module registry holds at most one entry
\* per real_name.
C1_OneEntryPerRealName == NoTwoWithSameRealName(active_modules)

\* C2: after every add_active_module or remove_active_module,
\* CPENV_ACTIVE_MODULES is the real_names of the registered modules, each
\* once, in ascending order, joined by the path separator.
C2_VariableIsSortedNames ==
    op.name \in {"add_active_module", "remove_active_module"} =>
        environ.CPENV_ACTIVE_MODULES =
            Join(AscendingNames(SeqToSet(RealNames(active_modules))))

\* the entries of the variable that are not empty and resolve
Restorable(pieces, repos) ==
    SelectSeq(pieces, LAMBDA module : module # "" /\ Resolve(<<module>>, repos).ok)

\* C7: after _init the registry holds, in the variable's order, one entry
\* named as each non-empty resolvable entry of CPENV_ACTIVE_MODULES; the
\* entries that do not resolve are skipped and reported.
C7_InitRestoresEntries ==
    op.name = "_init" =>
        /\ RealNames(active_modules) = Restorable(op.arg, get_repos)
        /\ op.ret = SelectSeq(op.arg, LAMBDA module :
                                 module # "" /\ ~Resolve(<<module>>, get_repos).ok)

-----------------------------------------------------------------------------
(* Properties of the repo registry *)

RepoNamesUnique(repos) ==
    \A i, j \in 1..Len(repos) : i # j => repos[i].name # repos[j].name

\* C4: no two repos of get_repos share a name, and add_repo of a repo whose
\* name is registered leaves the registry as it was.
C4_RepoNamesUnique ==
    [][/\ RepoNamesUnique(get_repos')
       /\ (op'.name = "add_repo" /\ op'.ret = "present") => registry_repos' = registry_repos
       /\ (op'.name = "add_repo" /\ op'.arg.repo.name \in Keys(registry_repos))
             => op'.ret = "present"]_vars

\* add_repo met a registered name that stood for another repo object
C4_Witness ==
    /\ op.name = "add_repo"
    /\ op.ret = "present"
    /\ Len(registry_repos) >= 3
    /\ get_repo(registry_repos, op.arg.repo.name) # op.arg.repo
    /\ environ.CPENV_HOME = "/h2"
    /\ Len(ModulePathsOf(environ)) >= 1
    /\ registry_extra # {}

\* C5: after set_home_path(path), get_repo('home') is the LocalRepo rooted
\* at the modules directory of the new home, and the other repos are as
\* they were.
C5_SetHomePathUpdatesHome ==
    [][op'.name = "set_home_path" =>
          /\ get_repo(registry_repos', "home") = LocalRepo("home", ModulesDir(op'.ret))
          /\ SelectSeq(get_repos', LAMBDA r : r.name # "home")
                = SelectSeq(get_repos, LAMBDA r : r.name # "home")]_vars

\* C6: after _init, whatever the working directory, the home and user
\* paths and CPENV_MODULES, repos named 'home' and 'user' are registered
\* and 'home' is rooted at the home modules path.
C6_HomeAndUserRegistered ==
    op.name = "_init" =>
        /\ get_repo(registry_repos, "home") = LocalRepo("home", get_home_modules_path(environ))
        /\ get_repo(registry_repos, "user") # NoRepo

-----------------------------------------------------------------------------
(* Properties of the commands *)

\* C8: when a requirement of the activate command does not resolve, the
\* registry and CPENV_ACTIVE_MODULES stay as they were, no subshell starts
\* and the exit code is 1; the subshell starts only when all resolved and
\* every resolved module was registered.
C8_ActivateAllOrNothing ==
    [][op'.name = "Activate.run" =>
          LET res == Resolve(op'.arg, get_repos) IN
          /\ ~res.ok => /\ op'.exit = 1
                        /\ op'.ret = "ResolveError"
                        /\ active_modules' = active_modules
                        /\ environ' = environ
          /\ op'.ret = "launched" =>
                /\ res.ok
                /\ \A k \in 1..Len(res.specs) :
                      Module(res.specs[k]) \in SeqToSet(active_modules')]_vars

\* the activate command failed to resolve its second requirement after a
\* first one that resolves
C8_Witness ==
    /\ op.name = "Activate.run"
    /\ op.ret = "ResolveError"
    /\ Len(op.arg) = 2
    /\ Resolve(<<op.arg[1]>>, get_repos).ok
    /\ ~Resolve(<<op.arg[2]>>, get_repos).ok
    /\ active_modules # <<>>

\* C9: the clone command downloads the module from the repo --from_repo
\* names (from the first repo that resolves it when absent) into the
\* directory 'where', with --overwrite as the overwrite flag.
C9_CloneMapsArguments ==
    op.name = "Clone.run" =>
        op.ret = clone(op.arg.module, op.arg.from_repo, op.arg.where, op.arg.overwrite,
                       registry_repos)

\* C10: prompt_for_repo returns repos[i] exactly for a typed index i with
\* 0 <= i < n, or the default repo for an empty answer when there is one;
\* every other answer ends the process with exit code 1 and returns nothing.
C10_PromptReturnsOnlyValidChoice ==
    op.name = "prompt_for_repo" =>
        LET repos == get_repos
            choice == ParseInt(op.arg)
            hasDefault == get_repo(registry_repos, "home") # NoRepo
        IN  IF op.arg = <<>> /\ hasDefault
            THEN op.ret = Returned(get_repo(registry_repos, "home"))
            ELSE IF op.arg # <<>> /\ choice.ok /\ 0 <= choice.n /\ choice.n < Len(repos)
            THEN op.ret = Returned(repos[choice.n + 1])
            ELSE op.ret.outcome # "return" /\ op.exit = 1

\* C11: the remove command removes a module only when it was found in the
\* chosen repo and the answer to the confirmation was y, yes or yup in any
\* case, and then removes that module alone; when the module is not found or
\* the answer is anything else the process ends with code 1 and the disk is
\* as it was.
C11_RemoveOnlyWhenFoundAndConfirmed ==
    [][op'.name = "Remove.run" =>
          LET a == op'.arg
              chosen == op'.ret.repo
              yes == a.answer \in {"y", "YES", "Yup"}
          IN  /\ disk' # disk =>
                    /\ chosen # NoRepo
                    /\ a.module \in Catalog(chosen.path)
                    /\ yes
                    /\ disk' = [disk EXCEPT !.removed = @ \cup {<<chosen.path, a.module>>}]
              /\ (chosen # NoRepo /\ (a.module \notin Catalog(chosen.path) \/ ~yes)) =>
                    /\ op'.exit = 1
                    /\ disk' = disk
              /\ (a.from_repo # None /\ chosen # NoRepo) => chosen.name = a.from_repo]_vars

\* the command removed a module after the answer YES, a second module being
\* gone already
C11_Witness ==
    /\ op.name = "Remove.run"
    /\ op.ret.outcome = "removed"
    /\ op.arg.answer = "YES"
    /\ Cardinality(disk.removed) >= 2

\* C12: api.clone, api.publish and api.copy, given the name of module M,
\* download, upload or copy M itself, also when M requires other modules.
C12_TransfersTheNamedModule ==
    (op.name \in {"clone", "publish", "copy"}
        /\ op.ret.outcome \in {"downloaded", "uploaded", "copied"})
    => op.ret.spec.real_name = op.arg.module

\* the repos of a list other than the one named
Without(repos, name) == SelectSeq(repos, LAMBDA r : r.name # name)

\* repos[idx] as Python reads it; FALSE where it raises IndexError
IsAtIndex(repos, idx, repo) ==
    LET n == Len(repos)
        j == IF idx < 0 THEN n + idx + 1 ELSE idx + 1
    IN  j \in 1..n /\ repos[j] = repo

\* what add_repo and remove_repo do to the order of the other repos, and
\* add_repo without idx
OrderOfOthersKept ==
    /\ (op'.name = "add_repo" /\ op'.ret = "added")
          => /\ Without(get_repos', op'.arg.repo.name) = get_repos
             /\ Len(get_repos') = Len(get_repos) + 1
             /\ op'.arg.idx = NoIdx => get_repos'[Len(get_repos')] = op'.arg.repo
    /\ op'.name = "remove_repo"
          => /\ get_repos' = Without(get_repos, op'.arg.name)
             /\ (\A i \in 1..Len(get_repos) : get_repos[i].name # op'.arg.name)
                   => registry_repos' = registry_repos

C14_CreateStepsInOrder ==
    [][op'.name = "create" =>
          LET where == NormPath(op'.arg.where, cwd)
              log == op'.ret.log
              Ran(step) == {i \in 1..Len(log) : log[i].step = step}
          IN  /\ where \in disk.dirs
                    => /\ op'.ret.outcome = "OSError"
                       /\ log = <<>>
                       /\ disk' = disk
              /\ where \notin disk.dirs
                    => /\ op'.ret.outcome # "OSError"
                       /\ disk' # disk => Ran("pre_create") # {}
                       /\ \A i \in Ran("pre_create") :
                             /\ log[i].dirs = disk.dirs
                             /\ log[i].files = disk.files
                             /\ log[i].dirs \cap {where, HooksPath(where)} = {}
                             /\ MetadataPath(where) \notin log[i].files
                       /\ MetadataPath(where) \in disk'.files
                             => /\ Ran("write") # {}
                                /\ \A i \in Ran("write") :
                                      {where, HooksPath(where)} \subseteq log[i].dirs
                       /\ \A i \in Ran("post_create") : MetadataPath(where) \in log[i].files
                       /\ op'.ret.outcome = "created"
                             => /\ Ran("post_create") # {}
                                /\ MetadataPath(where) \in disk'.files]_vars

\* create made a second module, its post_create hook seeing the metadata file
C14_Witness ==
    /\ op.name = "create"
    /\ op.ret.outcome = "created"
    /\ Cardinality(disk.files) >= 2
    /\ \E i \in 1..Len(op.ret.log) :
          /\ op.ret.log[i].step = "post_create"
          /\ Cardinality(op.ret.log[i].files) >= 2

====
